---- MODULE Spec2Model ----
(***************************************************************************)
(* Compliance Timeline Engine and Reminder Scheduler of the landlord       *)
(* command centre: services/timeline.py, services/notifications.py and the *)
(* record-store operations of database.py they call (SQLite backend).      *)
(* Dates are day numbers; timedelta(days=n) is integer addition.           *)
(***************************************************************************)
EXTENDS Integers, FiniteSets, Sequences, TLC

VARIABLES
    today,           \* date.today()
    properties,      \* table properties: [id, user_id]
    tenancies,       \* table tenancies: [id, user_id, property_id, tenancy_start_date, deposit_amount]
    certificates,    \* table certificates
    events,          \* table compliance_events
    sent_reminders,  \* table sent_reminders
    nextCertId,      \* AUTOINCREMENT counter of certificates
    nextEventId,     \* AUTOINCREMENT counter of compliance_events
    served_documents, \* table served_documents
    nextServedId,    \* AUTOINCREMENT counter of served_documents
    nextPropertyId,  \* AUTOINCREMENT counter of properties
    running,         \* the send_reminders calls in progress, per request
    delivered,       \* the event lines of the emails in outbox: [mail, tenancy_id, event_type, reminder_days]
    tieBreak,        \* which of several rows with equal ORDER BY key LIMIT 1 returns
    outbox,          \* emails the mail transport accepted, oldest first
    ret,             \* the last operation and what it returned
    calls            \* number of calls made so far, per bounded operation

vars == <<today, properties, tenancies, certificates, events, sent_reminders,
          nextCertId, nextEventId, served_documents, nextServedId,
          nextPropertyId, tieBreak, outbox, ret, calls, running, delivered>>

store == <<properties, tenancies, certificates, events, sent_reminders,
           nextCertId, nextEventId, served_documents, nextServedId,
           nextPropertyId, tieBreak>>

----------------------------------------------------------------------------
(* Bounds of the model *)

MaxCerts == 2
MaxGenerates == 2
MaxCompletes == 2
MaxAdvances == 2
MaxProperties == 3
MaxServes == 2

(* None *)
NULL == -1

StartToday == {1000}

Users == {1}

(* Inputs *)
StartDates == {NULL, 640, 990, 1000}
Deposits == {0, 1000}
RenewalTypes == {"gas_safety", "eicr", "epc"}
ReminderTypes == {"gas_safety"}
DaySteps == {11}
LookaheadDays == {14, 19, 30}

----------------------------------------------------------------------------
(* models.py enums *)

CertificateType == <<"gas_safety", "eicr", "epc", "fire_safety">>

PENDING == "pending"
COMPLETED == "completed"
OVERDUE == "overdue"

----------------------------------------------------------------------------
(* database.py *)

\* list_properties(user_id)
list_properties(user_id) == {p \in properties : p.user_id = user_id}

\* ORDER BY issue_date DESC: SQLite sorts NULL below every value
IssueKey(c) == IF c.issue_date = NULL THEN -1 ELSE c.issue_date

\* get_latest_certificate with ORDER BY issue_date ASC
get_latest_certificate_oldest(property_id, cert_type, user_id) ==
    LET rows == {c \in certificates :
                    /\ c.property_id = property_id
                    /\ c.certificate_type = cert_type
                    /\ c.user_id = user_id}
        top == {c \in rows : \A d \in rows : IssueKey(c) <= IssueKey(d)}
    IN  IF rows = {} THEN {}
        ELSE IF tieBreak = "first"
             THEN {c \in top : \A d \in top : c.id <= d.id}
             ELSE {c \in top : \A d \in top : c.id >= d.id}

\* get_latest_certificate(property_id, cert_type, user_id): the first row of
\* ORDER BY issue_date DESC LIMIT 1, or NULL when no row matches.  Rows with
\* equal issue_date come in an order SQL leaves open; it is fixed per store.
get_latest_certificate(property_id, cert_type, user_id) ==
    LET rows == {c \in certificates :
                    /\ c.property_id = property_id
                    /\ c.certificate_type = cert_type
                    /\ c.user_id = user_id}
        top == {c \in rows : \A d \in rows : IssueKey(d) <= IssueKey(c)}
    IN  IF rows = {} THEN {}
        ELSE IF tieBreak = "first"
             THEN {c \in top : \A d \in top : c.id <= d.id}
             ELSE {c \in top : \A d \in top : c.id >= d.id}

\* update_certificate(cert_id, user_id, issue_date, expiry_date): the table
\* after the UPDATE; an argument that is None leaves its column as it is
update_certificate(certs, cert_id, user_id, issue_date, expiry_date) ==
    {IF c.id = cert_id /\ c.user_id = user_id
     THEN [c EXCEPT !.issue_date = IF issue_date # NULL THEN issue_date ELSE @,
                    !.expiry_date = IF expiry_date # NULL THEN expiry_date ELSE @]
     ELSE c : c \in certs}

\* create_property(prop, user_id): the table with the new row
create_property(rows, user_id) ==
    rows \cup {[id |-> nextPropertyId, user_id |-> user_id]}

\* the SELECT of list_events without the user_id condition
select_events_any_owner(evs, user_id, property_id, tenancy_id) ==
    {e \in evs :
        /\ (property_id # NULL => e.property_id = property_id)
        /\ (tenancy_id # NULL => e.tenancy_id = tenancy_id)}

\* the SELECT of list_events over the table contents evs
select_events(evs, user_id, property_id, tenancy_id) ==
    {e \in evs :
        /\ e.user_id = user_id
        /\ (property_id # NULL => e.property_id = property_id)
        /\ (tenancy_id # NULL => e.tenancy_id = tenancy_id)}

\* list_events(user_id, property_id=None, tenancy_id=None), as a set of rows
list_events(user_id, property_id, tenancy_id) ==
    select_events(events, user_id, property_id, tenancy_id)

\* update_event_status with WHERE user_id = ? only
update_event_status_every_row(evs, event_id, user_id, status, completed_date) ==
    {IF e.user_id = user_id
        THEN [e EXCEPT !.status = status, !.completed_date = completed_date]
        ELSE e : e \in evs}

\* update_event_status(event_id, user_id, status, completed_date=None)
update_event_status(evs, event_id, user_id, status, completed_date) ==
    {IF e.id = event_id /\ e.user_id = user_id
        THEN [e EXCEPT !.status = status, !.completed_date = completed_date]
        ELSE e : e \in evs}

\* delete_events_for_tenancy deleting no row
delete_events_for_tenancy_keep_all(evs, tenancy_id, user_id) == evs

\* delete_events_for_tenancy(tenancy_id, user_id)
delete_events_for_tenancy(evs, tenancy_id, user_id) ==
    {e \in evs : ~(e.tenancy_id = tenancy_id /\ e.user_id = user_id)}

\* delete_property: DELETE FROM compliance_events WHERE property_id = ? AND
\* user_id = ?
delete_events_for_property(evs, property_id, user_id) ==
    {e \in evs : ~(e.property_id = property_id /\ e.user_id = user_id)}

\* delete_property leaving the served documents in place
delete_served_for_property_nothing(docs, tens, property_id, user_id) == docs

\* delete_property: DELETE FROM served_documents WHERE user_id = ? AND
\* tenancy_id IN (SELECT id FROM tenancies WHERE property_id = ? AND user_id = ?)
delete_served_for_property(docs, tens, property_id, user_id) ==
    LET ids == {t.id : t \in {t \in tens : t.property_id = property_id
                                              /\ t.user_id = user_id}}
    IN  {d \in docs : ~(d.user_id = user_id /\ d.tenancy_id \in ids)}

\* delete_property: DELETE FROM tenancies WHERE property_id = ? AND user_id = ?
delete_tenancies_for_property(tens, property_id, user_id) ==
    {t \in tens : ~(t.property_id = property_id /\ t.user_id = user_id)}

\* delete_property: DELETE FROM certificates WHERE property_id = ? AND
\* user_id = ?
delete_certificates_for_property(certs, property_id, user_id) ==
    {c \in certs : ~(c.property_id = property_id /\ c.user_id = user_id)}

\* delete_property: DELETE FROM properties WHERE id = ? AND user_id = ?
delete_property_row(rows, property_id, user_id) ==
    {r \in rows : ~(r.id = property_id /\ r.user_id = user_id)}

\* mark_document_served as a plain INSERT
mark_document_served_insert(docs, tenancy_id, document_type, served_date, user_id, proof_path, notes) ==
    docs \cup {[id |-> nextServedId, user_id |-> user_id,
                tenancy_id |-> tenancy_id, document_type |-> document_type,
                served_date |-> served_date, proof_path |-> proof_path,
                notes |-> notes]}

\* mark_document_served(tenancy_id, document_type, served_date, user_id,
\* proof_path, notes): INSERT ... ON CONFLICT(tenancy_id, document_type) DO
\* UPDATE SET served_date, proof_path, notes
mark_document_served(docs, tenancy_id, document_type, served_date, user_id, proof_path, notes) ==
    IF \E d \in docs : d.tenancy_id = tenancy_id /\ d.document_type = document_type
    THEN {IF d.tenancy_id = tenancy_id /\ d.document_type = document_type
             THEN [d EXCEPT !.served_date = served_date,
                            !.proof_path = proof_path,
                            !.notes = notes]
             ELSE d : d \in docs}
    ELSE docs \cup {[id |-> nextServedId, user_id |-> user_id,
                     tenancy_id |-> tenancy_id, document_type |-> document_type,
                     served_date |-> served_date, proof_path |-> proof_path,
                     notes |-> notes]}

\* delete_served_document(tenancy_id, document_type, user_id)
delete_served_document(docs, tenancy_id, document_type, user_id) ==
    {d \in docs : ~(/\ d.tenancy_id = tenancy_id
                    /\ d.document_type = document_type
                    /\ d.user_id = user_id)}

----------------------------------------------------------------------------
(* services/timeline.py: the rule catalog *)

\* the deposit rules without the test that a deposit was taken
deposit_due_date_any_deposit(t) ==
    IF t.tenancy_start_date # NULL /\ t.deposit_amount >= 0
    THEN t.tenancy_start_date + 30 ELSE NULL

\* lambda of deposit_protection and of prescribed_info
deposit_due_date(t) ==
    IF t.tenancy_start_date # NULL /\ t.deposit_amount > 0
    THEN t.tenancy_start_date + 30 ELSE NULL

\* lambda of gas_safety_serve, epc_serve, how_to_rent, smoke_co_alarms,
\* right_to_rent, legionella_assessment
start_due_date(t) ==
    IF t.tenancy_start_date # NULL THEN t.tenancy_start_date ELSE NULL

\* eicr_serve with the 30 days of the deposit rules
eicr_serve_due_date_30(t) ==
    IF t.tenancy_start_date # NULL THEN t.tenancy_start_date + 30 ELSE NULL

\* lambda of eicr_serve
eicr_serve_due_date(t) ==
    IF t.tenancy_start_date # NULL THEN t.tenancy_start_date + 28 ELSE NULL

\* the rent-increase rule adding 365 days to whatever the start date is
rent_increase_due_date_unguarded(t) == t.tenancy_start_date + 365

\* lambda of rent_increase_earliest
rent_increase_due_date(t) ==
    IF t.tenancy_start_date # NULL THEN t.tenancy_start_date + 365 ELSE NULL

\* _gas_safety_due_date with a fallback of twelve 30-day months
gas_safety_due_date_360(t, user_id) ==
    LET cert == get_latest_certificate(t.property_id, "gas_safety", user_id)
    IN  IF cert # {} /\ (\E c \in cert : c.expiry_date # NULL)
        THEN (CHOOSE c \in cert : TRUE).expiry_date
        ELSE IF t.tenancy_start_date # NULL
             THEN t.tenancy_start_date + 360
             ELSE NULL

\* _gas_safety_due_date(tenancy, last_date) of the generator of user_id
gas_safety_due_date(t, user_id) ==
    LET cert == get_latest_certificate(t.property_id, "gas_safety", user_id)
    IN  IF cert # {} /\ (\E c \in cert : c.expiry_date # NULL)
        THEN (CHOOSE c \in cert : TRUE).expiry_date
        ELSE IF t.tenancy_start_date # NULL
             THEN t.tenancy_start_date + 365
             ELSE NULL

\* _eicr_due_date(tenancy, last_date)
eicr_due_date(t, user_id) ==
    LET cert == get_latest_certificate(t.property_id, "eicr", user_id)
    IN  IF cert # {} /\ (\E c \in cert : c.expiry_date # NULL)
        THEN (CHOOSE c \in cert : TRUE).expiry_date
        ELSE IF t.tenancy_start_date # NULL
             THEN t.tenancy_start_date + 365 * 5
             ELSE NULL

\* _epc_due_date with the fallback of its recurring_days, 365 * 10
epc_due_date_ten_years(t, user_id) ==
    LET cert == get_latest_certificate(t.property_id, "epc", user_id)
    IN  IF cert # {} /\ (\E c \in cert : c.expiry_date # NULL)
        THEN (CHOOSE c \in cert : TRUE).expiry_date
        ELSE IF t.tenancy_start_date # NULL
             THEN t.tenancy_start_date + 365 * 10
             ELSE NULL

\* _epc_due_date(tenancy, last_date)
epc_due_date(t, user_id) ==
    LET cert == get_latest_certificate(t.property_id, "epc", user_id)
    IN  IF cert # {} /\ (\E c \in cert : c.expiry_date # NULL)
        THEN (CHOOSE c \in cert : TRUE).expiry_date
        ELSE IF t.tenancy_start_date # NULL
             THEN t.tenancy_start_date
             ELSE NULL

\* _create_rules(): event_type and priority of each rule, in catalog order
rules == <<
    [event_type |-> "deposit_protection",     priority |-> "critical"],
    [event_type |-> "prescribed_info",        priority |-> "critical"],
    [event_type |-> "gas_safety_serve",       priority |-> "critical"],
    [event_type |-> "eicr_serve",             priority |-> "high"],
    [event_type |-> "epc_serve",              priority |-> "high"],
    [event_type |-> "how_to_rent",            priority |-> "high"],
    [event_type |-> "smoke_co_alarms",        priority |-> "high"],
    [event_type |-> "gas_safety_renewal",     priority |-> "critical"],
    [event_type |-> "eicr_renewal",           priority |-> "high"],
    [event_type |-> "epc_renewal",            priority |-> "medium"],
    [event_type |-> "rent_increase_earliest", priority |-> "medium"],
    [event_type |-> "right_to_rent",          priority |-> "medium"],
    [event_type |-> "legionella_assessment",  priority |-> "low"] >>

\* rule.calculate_due_date(tenancy, None) of rule number i
calculate_due_date(i, t, user_id) ==
    CASE rules[i].event_type \in {"deposit_protection", "prescribed_info"} ->
            deposit_due_date(t)
      [] rules[i].event_type = "eicr_serve" -> eicr_serve_due_date(t)
      [] rules[i].event_type = "gas_safety_renewal" -> gas_safety_due_date(t, user_id)
      [] rules[i].event_type = "eicr_renewal" -> eicr_due_date(t, user_id)
      [] rules[i].event_type = "epc_renewal" -> epc_due_date(t, user_id)
      [] rules[i].event_type = "rent_increase_earliest" -> rent_increase_due_date(t)
      [] OTHER -> start_due_date(t)

\* the status with an event due today counted as late
initial_status_today_overdue(due_date) ==
    IF due_date <= today THEN OVERDUE ELSE PENDING

\* "Determine status" in generate_for_tenancy
initial_status(due_date) ==
    IF due_date < today THEN OVERDUE ELSE PENDING

\* a generation that leaves out the obligations whose event was completed
new_events_unless_completed(t, user_id) ==
    LET applies == {i \in 1..Len(rules) :
                       /\ calculate_due_date(i, t, user_id) # NULL
                       /\ ~\E e \in events : /\ e.tenancy_id = t.id
                                              /\ e.event_type = rules[i].event_type
                                              /\ e.status = COMPLETED}
        rank(i) == Cardinality({j \in applies : j < i})
    IN  {[id             |-> nextEventId + rank(i),
          user_id        |-> user_id,
          property_id    |-> t.property_id,
          tenancy_id     |-> t.id,
          event_type     |-> rules[i].event_type,
          due_date       |-> calculate_due_date(i, t, user_id),
          completed_date |-> NULL,
          status         |-> initial_status(calculate_due_date(i, t, user_id)),
          priority       |-> rules[i].priority] : i \in applies}

\* the loop of generate_for_tenancy: the events created from the catalog,
\* with the ids create_event hands out in catalog order
new_events(t, user_id) ==
    LET applies == {i \in 1..Len(rules) : calculate_due_date(i, t, user_id) # NULL}
        rank(i) == Cardinality({j \in applies : j < i})
    IN  {[id             |-> nextEventId + rank(i),
          user_id        |-> user_id,
          property_id    |-> t.property_id,
          tenancy_id     |-> t.id,
          event_type     |-> rules[i].event_type,
          due_date       |-> calculate_due_date(i, t, user_id),
          completed_date |-> NULL,
          status         |-> initial_status(calculate_due_date(i, t, user_id)),
          priority       |-> rules[i].priority] : i \in applies}

----------------------------------------------------------------------------
(* services/timeline.py: queries *)

\* the events get_upcoming_events appends when the table holds evs
upcoming_in(evs, user_id, days, property_id, tenancy_id) ==
    {e \in select_events(evs, user_id, property_id, tenancy_id) :
        /\ e.status # COMPLETED
        /\ e.due_date # NULL
        /\ e.due_date <= today + days}

\* the events get_upcoming_events appends, as stored before the call
upcoming_rows(user_id, days, property_id, tenancy_id) ==
    upcoming_in(events, user_id, days, property_id, tenancy_id)

\* get_overdue_events without the test that skips completed events
overdue_rows_with_completed(user_id, property_id, tenancy_id) ==
    {e \in list_events(user_id, property_id, tenancy_id) :
        /\ e.due_date # NULL
        /\ e.due_date < today}

\* the events get_overdue_events appends, as stored before the call
overdue_rows(user_id, property_id, tenancy_id) ==
    {e \in list_events(user_id, property_id, tenancy_id) :
        /\ e.status # COMPLETED
        /\ e.due_date # NULL
        /\ e.due_date < today}

\* the test of the queries with an event due today counted as late
needs_overdue_today_included(e) ==
    e.due_date <= today /\ e.status # OVERDUE

\* "Update status if overdue": the test both queries make on an event they
\* append
needs_overdue(e) ==
    e.due_date < today /\ e.status # OVERDUE

\* the lazy transition both queries apply to an event they append
materialize(e) ==
    IF needs_overdue(e)
    THEN [e EXCEPT !.status = OVERDUE]
    ELSE e

\* a query that reports the transition without storing it
persist_overdue_nothing(evs, rows, user_id) == evs

\* the update_event_status calls of one query over the rows it appends
persist_overdue(evs, rows, user_id) ==
    {IF e \in rows /\ needs_overdue(e)
        THEN CHOOSE f \in update_event_status({e}, e.id, user_id, OVERDUE, NULL) : TRUE
        ELSE e : e \in evs}

\* priority_order.get(e.priority, 99)
priority_order(priority) ==
    CASE priority = "critical" -> 0
      [] priority = "high" -> 1
      [] priority = "medium" -> 2
      [] priority = "low" -> 3
      [] OTHER -> 99

\* the order of two rows list_events returns with equal due_date: ORDER BY
\* due_date ASC leaves it to the store, which keeps one order per table
row_before(e, f) ==
    IF tieBreak = "first" THEN e.id < f.id ELSE e.id > f.id

\* a sort on the priority first and the due date second
sort_before_priority_first(e, f) ==
    \/ priority_order(e.priority) < priority_order(f.priority)
    \/ /\ priority_order(e.priority) = priority_order(f.priority)
       /\ \/ e.due_date < f.due_date
          \/ e.due_date = f.due_date /\ row_before(e, f)

\* e comes before f after upcoming.sort(key=lambda e: (e.due_date or
\* date.max, priority_order.get(e.priority, 99))); the sort is stable, so
\* rows of equal key stay in the order list_events returned them
sort_before(e, f) ==
    \/ e.due_date < f.due_date
    \/ /\ e.due_date = f.due_date
       /\ \/ priority_order(e.priority) < priority_order(f.priority)
          \/ /\ priority_order(e.priority) = priority_order(f.priority)
             /\ row_before(e, f)

\* the list get_upcoming_events returns for the events it appended
RECURSIVE sorted_upcoming(_)
sorted_upcoming(rows) ==
    IF rows = {} THEN <<>>
    ELSE LET first == CHOOSE e \in rows :
                          \A f \in rows \ {e} : sort_before(e, f)
         IN  <<first>> \o sorted_upcoming(rows \ {first})

\* a view that leaves the overdue events in its upcoming list
without_overdue_keep_all(upcoming, overdue_ids) == upcoming

\* [e for e in upcoming if e.id not in overdue_ids]
without_overdue(upcoming, overdue_ids) ==
    LET kept(e) == e.id \notin overdue_ids
    IN  SelectSeq(upcoming, kept)

----------------------------------------------------------------------------
(* services/notifications.py *)

REMINDER_SCHEDULE == <<
    [label |-> "3 months", days |-> 90],
    [label |-> "2 months", days |-> 60],
    [label |-> "4 weeks",  days |-> 28],
    [label |-> "3 weeks",  days |-> 21],
    [label |-> "2 weeks",  days |-> 14],
    [label |-> "1 week",   days |-> 7] >>

\* the threshold loop with the test days_until >= 0
matched_threshold_today_included(days_until) ==
    LET hits == {i \in 1..Len(REMINDER_SCHEDULE) :
                    days_until <= REMINDER_SCHEDULE[i].days /\ days_until >= 0}
    IN  IF hits = {} THEN 0
        ELSE CHOOSE i \in hits : \A j \in hits : i <= j

\* for label, days in REMINDER_SCHEDULE: if days_until <= days and
\* days_until > 0: ... break -- the index of the entry the loop stops at, 0
\* when it runs to the end
matched_threshold(days_until) ==
    LET hits == {i \in 1..Len(REMINDER_SCHEDULE) :
                    days_until <= REMINDER_SCHEDULE[i].days /\ days_until > 0}
    IN  IF hits = {} THEN 0
        ELSE CHOOSE i \in hits : \A j \in hits : i <= j

\* _reminder_already_sent finding no row
reminder_already_sent_never(item_type, item_id, reminder_days, user_id) == FALSE

\* _reminder_already_sent(item_type, item_id, reminder_days, user_id)
reminder_already_sent(item_type, item_id, reminder_days, user_id) ==
    \E m \in sent_reminders :
        /\ m.user_id = user_id
        /\ m.item_type = item_type
        /\ m.item_id = item_id
        /\ m.reminder_days = reminder_days

\* the ExpiryItem built for an item whose loop stopped at entry i
expiry_item(item_type, item_id, expiry_date, i) ==
    [item_type         |-> item_type,
     item_id           |-> item_id,
     expiry_date       |-> expiry_date,
     days_until_expiry |-> expiry_date - today,
     reminder_label    |-> REMINDER_SCHEDULE[i].label]

\* _get_expiring_certificates(cert_type, today, user_id), user_id given
get_expiring_certificates(cert_type, user_id) ==
    {expiry_item("certificate", c.id, c.expiry_date,
                 matched_threshold(c.expiry_date - today)) :
        c \in {c \in UNION {get_latest_certificate(p.id, cert_type, user_id) :
                                p \in list_properties(user_id)} :
                /\ c.expiry_date # NULL
                /\ matched_threshold(c.expiry_date - today) # 0
                /\ ~reminder_already_sent("certificate", c.id,
                       REMINDER_SCHEDULE[matched_threshold(c.expiry_date - today)].days,
                       user_id)}}

\* _get_expiring_events(today, user_id), user_id given
get_expiring_events(user_id) ==
    {expiry_item("event", e.id, e.due_date, matched_threshold(e.due_date - today)) :
        e \in {e \in UNION {list_events(user_id, p.id, NULL) :
                                p \in list_properties(user_id)} :
                /\ e.due_date # NULL
                /\ e.status = PENDING
                /\ matched_threshold(e.due_date - today) # 0
                /\ ~reminder_already_sent("event", e.id,
                       REMINDER_SCHEDULE[matched_threshold(e.due_date - today)].days,
                       user_id)}}

\* get_expiring_items(user_id), user_id given
get_expiring_items(user_id) ==
    UNION {get_expiring_certificates(CertificateType[k], user_id) :
              k \in 1..Len(CertificateType)}
      \cup get_expiring_events(user_id)

\* self._list_all_properties(): the properties of every owner
list_all_properties == properties

\* self._get_latest_certificate_any_user(property_id, cert_type): the first
\* row of ORDER BY issue_date DESC LIMIT 1 among the rows of every owner
get_latest_certificate_any_user(property_id, cert_type) ==
    LET rows == {c \in certificates :
                    /\ c.property_id = property_id
                    /\ c.certificate_type = cert_type}
        top == {c \in rows : \A d \in rows : IssueKey(d) <= IssueKey(c)}
    IN  IF rows = {} THEN {}
        ELSE IF tieBreak = "first"
             THEN {c \in top : \A d \in top : c.id <= d.id}
             ELSE {c \in top : \A d \in top : c.id >= d.id}

\* self._list_events_any_user(property_id): the events of a property
list_events_any_user(property_id) ==
    {e \in events : e.property_id = property_id}

\* the append test without the owner: only the ledger is asked
may_append_untracked(item_type, item_id, reminder_days, user_id) ==
    ~reminder_already_sent(item_type, item_id, reminder_days, user_id)

\* "user_id is not None and not self._reminder_already_sent(...)": the test
\* of both threshold loops before an item is appended
may_append(item_type, item_id, reminder_days, user_id) ==
    user_id # NULL /\ ~reminder_already_sent(item_type, item_id, reminder_days, user_id)

\* _get_expiring_certificates(cert_type, today, None)
get_expiring_certificates_all(cert_type) ==
    {expiry_item("certificate", c.id, c.expiry_date,
                 matched_threshold(c.expiry_date - today)) :
        c \in {c \in UNION {get_latest_certificate_any_user(p.id, cert_type) :
                                p \in list_all_properties} :
                /\ c.expiry_date # NULL
                /\ matched_threshold(c.expiry_date - today) # 0
                /\ may_append("certificate", c.id,
                       REMINDER_SCHEDULE[matched_threshold(c.expiry_date - today)].days,
                       NULL)}}

\* _get_expiring_events(today, None)
get_expiring_events_all ==
    {expiry_item("event", e.id, e.due_date, matched_threshold(e.due_date - today)) :
        e \in {e \in UNION {list_events_any_user(p.id) : p \in list_all_properties} :
                /\ e.due_date # NULL
                /\ e.status = PENDING
                /\ matched_threshold(e.due_date - today) # 0
                /\ may_append("event", e.id,
                       REMINDER_SCHEDULE[matched_threshold(e.due_date - today)].days,
                       NULL)}}

\* get_expiring_items() without an owner, user_id = None
get_expiring_items_all ==
    UNION {get_expiring_certificates_all(CertificateType[k]) :
              k \in 1..Len(CertificateType)}
      \cup get_expiring_events_all

\* the days of the tightest REMINDER_SCHEDULE entry the item falls within
label_days_tightest(item) ==
    LET hits == {i \in 1..Len(REMINDER_SCHEDULE) :
                    item.days_until_expiry <= REMINDER_SCHEDULE[i].days}
    IN  REMINDER_SCHEDULE[CHOOSE i \in hits : \A j \in hits : i >= j].days

\* the days of the first REMINDER_SCHEDULE entry whose label is the item's
label_days(item) ==
    LET hits == {i \in 1..Len(REMINDER_SCHEDULE) :
                    REMINDER_SCHEDULE[i].label = item.reminder_label}
    IN  REMINDER_SCHEDULE[CHOOSE i \in hits : \A j \in hits : i <= j].days

\* _mark_reminder_sent inserting no row
mark_reminder_sent_nothing(markers, item_type, item_id, reminder_days, user_id) ==
    markers

\* _mark_reminder_sent(item_type, item_id, reminder_days, user_id):
\* INSERT OR IGNORE under UNIQUE(user_id, item_type, item_id, reminder_days)
mark_reminder_sent(markers, item_type, item_id, reminder_days, user_id) ==
    markers \cup {[user_id |-> user_id, item_type |-> item_type,
                   item_id |-> item_id, reminder_days |-> reminder_days]}

\* a plain INSERT under UNIQUE(user_id, item_type, item_id, reminder_days),
\* which raises when the key is stored already
mark_reminder_raises_on_conflict(markers, item_type, item_id, reminder_days, user_id) ==
    \E m \in markers :
        /\ m.user_id = user_id
        /\ m.item_type = item_type
        /\ m.item_id = item_id
        /\ m.reminder_days = reminder_days

\* whether _mark_reminder_sent raises: INSERT OR IGNORE skips a row whose
\* key is stored already
mark_reminder_raises(markers, item_type, item_id, reminder_days, user_id) == FALSE

\* "Mark all as sent": the loop of send_reminders over the items
mark_all_sent(markers, items, user_id) ==
    markers \cup UNION {mark_reminder_sent({}, i.item_type, i.item_id,
                                           label_days(i), user_id) : i \in items}

\* the (item_type, item_id, threshold) triples an email reports
triples(items) ==
    {[item_type |-> i.item_type, item_id |-> i.item_id,
      reminder_days |-> label_days(i)] : i \in items}

\* the lines of an email about events, each with the tenancy and the
\* event_type of the event it names and the threshold of its heading;
\* mail is the position of the email in outbox
event_lines(items, mail) ==
    {[mail          |-> mail,
      tenancy_id    |-> p[1].tenancy_id,
      event_type    |-> p[1].event_type,
      reminder_days |-> label_days(p[2])] :
        p \in {q \in events \X items :
                  q[2].item_type = "event" /\ q[2].item_id = q[1].id}}

\* send_reminders writing the markers before _send_email is tried
send_reminders_markers_first(markers, items, user_id, transport_ok) ==
    mark_all_sent(markers, items, user_id)

\* what send_reminders leaves in sent_reminders: the markers are written
\* only after _send_email returned; when it raised, the except branch returns
send_reminders_markers(markers, items, user_id, transport_ok) ==
    IF transport_ok THEN mark_all_sent(markers, items, user_id) ELSE markers

----------------------------------------------------------------------------
(* State machine *)

\* the requests that may be served at the same time
Requests == {1, 2}

\* a request that is not inside send_reminders
Idle == [pc |-> "idle", user_id |-> NULL, items |-> {}]

Ret(op, user_id, property_id, tenancy_id, days, evs, items, status, sent) ==
    [op |-> op, user_id |-> user_id, property_id |-> property_id,
     tenancy_id |-> tenancy_id, days |-> days, events |-> evs,
     items |-> items, status |-> status, sent |-> sent,
     list |-> <<>>, event_id |-> NULL]

\* the store after create_property and create_tenancy for one owner: one
\* property with one tenancy, whose start date and deposit are the inputs
InitWith(starts, deposits, ties) ==
    /\ today \in StartToday
    /\ properties = {[id |-> 1, user_id |-> 1]}
    /\ tenancies \in {{[id |-> 1, user_id |-> 1, property_id |-> 1,
                        tenancy_start_date |-> s, deposit_amount |-> d]} :
                         s \in starts, d \in deposits}
    /\ certificates = {}
    /\ events = {}
    /\ sent_reminders = {}
    /\ nextCertId = 1
    /\ nextEventId = 1
    /\ served_documents = {}
    /\ nextServedId = 1
    /\ nextPropertyId = 2
    /\ tieBreak \in ties
    /\ outbox = <<>>
    /\ ret = Ret("init", NULL, NULL, NULL, NULL, {}, {}, "ok", 0)
    /\ calls = [generate |-> 0, complete |-> 0, advance |-> 0]
    /\ running = [r \in Requests |-> Idle]
    /\ delivered = {}

\* the store of two owners with one property each, the first one let
InitOwners ==
    /\ today \in StartToday
    /\ properties = {[id |-> 1, user_id |-> 1], [id |-> 2, user_id |-> 2]}
    /\ tenancies =
          {[id |-> 1, user_id |-> 1, property_id |-> 1,
            tenancy_start_date |-> 990, deposit_amount |-> 1000]}
    /\ certificates = {}
    /\ events = {}
    /\ sent_reminders = {}
    /\ nextCertId = 1
    /\ nextEventId = 1
    /\ served_documents = {}
    /\ nextServedId = 1
    /\ nextPropertyId = 3
    /\ tieBreak = "first"
    /\ outbox = <<>>
    /\ ret = Ret("init", NULL, NULL, NULL, NULL, {}, {}, "ok", 0)
    /\ calls = [generate |-> 0, complete |-> 0, advance |-> 0]
    /\ running = [r \in Requests |-> Idle]
    /\ delivered = {}

\* the store of an owner with two let properties and of a second owner
\* whose tenancy names the first owner's property 1 (add_tenancy stores the
\* property_id of the form as it comes)
InitCascade ==
    /\ today \in StartToday
    /\ properties = {[id |-> 1, user_id |-> 1], [id |-> 2, user_id |-> 1]}
    /\ tenancies =
          {[id |-> 1, user_id |-> 1, property_id |-> 1,
            tenancy_start_date |-> 990, deposit_amount |-> 0],
           [id |-> 2, user_id |-> 1, property_id |-> 2,
            tenancy_start_date |-> 1000, deposit_amount |-> 0],
           [id |-> 3, user_id |-> 2, property_id |-> 1,
            tenancy_start_date |-> NULL, deposit_amount |-> 0]}
    /\ certificates = {}
    /\ events = {}
    /\ sent_reminders = {}
    /\ nextCertId = 1
    /\ nextEventId = 1
    /\ served_documents = {}
    /\ nextServedId = 1
    /\ nextPropertyId = 3
    /\ tieBreak = "first"
    /\ outbox = <<>>
    /\ ret = Ret("init", NULL, NULL, NULL, NULL, {}, {}, "ok", 0)
    /\ calls = [generate |-> 0, complete |-> 0, advance |-> 0]
    /\ running = [r \in Requests |-> Idle]
    /\ delivered = {}

\* Database.delete_property(property_id, user_id)
DeleteProperty(property_id, user_id) ==
    /\ events' = delete_events_for_property(events, property_id, user_id)
    /\ served_documents' =
          delete_served_for_property(served_documents, tenancies, property_id, user_id)
    /\ tenancies' = delete_tenancies_for_property(tenancies, property_id, user_id)
    /\ certificates' =
          delete_certificates_for_property(certificates, property_id, user_id)
    /\ properties' = delete_property_row(properties, property_id, user_id)
    /\ ret' = Ret("delete_property", user_id, property_id, NULL, NULL,
                  {}, {}, "ok", 0)
    /\ UNCHANGED <<delivered, running, today, sent_reminders, nextCertId, nextEventId, nextServedId,
                   nextPropertyId, tieBreak, outbox, calls>>

\* Database.mark_document_served(tenancy_id, document_type, served_date,
\* user_id, proof_path, notes); a row is inserted or an existing one updated
MarkDocumentServed(tenancy_id, document_type, served_date, user_id, proof_path, notes) ==
    /\ (\A d \in served_documents :
            ~(d.tenancy_id = tenancy_id /\ d.document_type = document_type))
          => nextServedId <= MaxServes
    /\ served_documents' =
          mark_document_served(served_documents, tenancy_id, document_type,
                               served_date, user_id, proof_path, notes)
    /\ nextServedId' =
          IF Cardinality(served_documents') > Cardinality(served_documents)
          THEN nextServedId + 1 ELSE nextServedId
    /\ ret' = Ret("mark_document_served", user_id, NULL, tenancy_id, NULL, {},
                  {[document_type |-> document_type, served_date |-> served_date,
                    proof_path |-> proof_path, notes |-> notes]}, "ok", 0)
    /\ UNCHANGED <<delivered, running, today, properties, tenancies, certificates, events,
                   sent_reminders, nextCertId, nextEventId, nextPropertyId,
                   tieBreak, outbox, calls>>

\* Database.delete_served_document(tenancy_id, document_type, user_id)
DeleteServedDocument(tenancy_id, document_type, user_id) ==
    /\ served_documents' =
          delete_served_document(served_documents, tenancy_id, document_type, user_id)
    /\ ret' = Ret("delete_served_document", user_id, NULL, tenancy_id, NULL, {},
                  {[document_type |-> document_type]}, "ok", 0)
    /\ UNCHANGED <<delivered, running, today, properties, tenancies, certificates, events,
                   sent_reminders, nextCertId, nextEventId, nextServedId,
                   nextPropertyId, tieBreak, outbox, calls>>

\* Database.create_property(prop, user_id)
CreateProperty(user_id) ==
    /\ Cardinality(properties) < MaxProperties
    /\ properties' = create_property(properties, user_id)
    /\ nextPropertyId' = nextPropertyId + 1
    /\ ret' = Ret("create_property", user_id, nextPropertyId, NULL, NULL,
                  {}, {}, "ok", 0)
    /\ UNCHANGED <<delivered, running, today, tenancies, certificates, events, sent_reminders,
                   nextCertId, nextEventId, served_documents, nextServedId,
                   tieBreak, outbox, calls>>

\* Database.list_properties(user_id)
ListProperties(user_id) ==
    /\ ret' = Ret("list_properties", user_id, NULL, NULL, NULL,
                  {}, list_properties(user_id), "ok", 0)
    /\ UNCHANGED <<delivered, running, today, store, outbox, calls>>

\* Database.create_certificate, as upload_certificate calls it
CreateCertificate(user_id, property_id, cert_type, issue_date, expiry_date) ==
    /\ Cardinality(certificates) < MaxCerts
    /\ certificates' = certificates \cup
          {[id |-> nextCertId, user_id |-> user_id, property_id |-> property_id,
            certificate_type |-> cert_type, issue_date |-> issue_date,
            expiry_date |-> expiry_date]}
    /\ nextCertId' = nextCertId + 1
    /\ ret' = Ret("create_certificate", user_id, property_id, NULL, NULL,
                  {}, {}, "ok", 0)
    /\ UNCHANGED <<delivered, running, today, properties, tenancies, events, sent_reminders,
                   nextEventId, served_documents, nextServedId,
                   nextPropertyId, tieBreak, outbox, calls>>

\* app.py update_certificate(cert_id): db.get_certificate finds the
\* certificate of the owner, then db.update_certificate writes the dates
UpdateCertificate(user_id, cert_id, issue_date, expiry_date) ==
    /\ \E c \in certificates : c.id = cert_id /\ c.user_id = user_id
    /\ certificates' =
          update_certificate(certificates, cert_id, user_id, issue_date, expiry_date)
    /\ ret' = Ret("update_certificate", user_id, NULL, NULL, NULL, {}, {},
                  IF issue_date = NULL /\ expiry_date = NULL THEN "unchanged"
                  ELSE "ok", 0)
    /\ UNCHANGED <<delivered, running, today, properties, tenancies, events, sent_reminders,
                   nextCertId, nextEventId, served_documents, nextServedId,
                   nextPropertyId, tieBreak, outbox, calls>>

\* TimelineGenerator(db, user_id).generate_for_tenancy(t), t a stored tenancy
GenerateForTenancy(user_id, t) ==
    /\ calls.generate < MaxGenerates
    /\ LET created == new_events(t, user_id)
       IN  /\ events' = delete_events_for_tenancy(events, t.id, user_id) \cup created
           /\ nextEventId' = nextEventId + Cardinality(created)
           /\ ret' = Ret("generate_for_tenancy", user_id, NULL, t.id, NULL,
                         created, {}, "ok", 0)
    /\ calls' = [calls EXCEPT !.generate = @ + 1]
    /\ UNCHANGED <<delivered, running, today, properties, tenancies, certificates, sent_reminders,
                   nextCertId, served_documents, nextServedId,
                   nextPropertyId, tieBreak, outbox>>

\* generate_for_tenancy(t) when a record-store call raises: failed_at = 0
\* is delete_events_for_tenancy, failed_at = i the evaluation or create_event
\* of rule i. Each database call runs in a connection() of its own, which
\* commits when the call returns and rolls back only the call that raised;
\* the exception leaves generate_for_tenancy past the calls already made.
GenerateForTenancyFails(user_id, t, failed_at) ==
    /\ calls.generate < MaxGenerates
    /\ LET created == {e \in new_events(t, user_id) :
                          \E i \in 1..(failed_at - 1) :
                              rules[i].event_type = e.event_type}
       IN  /\ events' = IF failed_at = 0 THEN events
                        ELSE delete_events_for_tenancy(events, t.id, user_id)
                                \cup created
           /\ nextEventId' = nextEventId + Cardinality(created)
           /\ ret' = Ret("generate_for_tenancy", user_id, NULL, t.id, NULL,
                         {}, {}, "error", 0)
    /\ calls' = [calls EXCEPT !.generate = @ + 1]
    /\ UNCHANGED <<delivered, running, today, properties, tenancies, certificates, sent_reminders,
                   nextCertId, served_documents, nextServedId,
                   nextPropertyId, tieBreak, outbox>>

\* TimelineGenerator(db, user_id).get_upcoming_events(days, property_id, tenancy_id)
GetUpcomingEvents(user_id, days, property_id, tenancy_id) ==
    LET rows == upcoming_rows(user_id, days, property_id, tenancy_id)
    IN  /\ events' = persist_overdue(events, rows, user_id)
        /\ ret' = [Ret("get_upcoming_events", user_id, property_id, tenancy_id, days,
                       {materialize(e) : e \in rows}, {}, "ok", 0)
                       EXCEPT !.list = sorted_upcoming({materialize(e) : e \in rows})]
        /\ UNCHANGED <<delivered, running, today, properties, tenancies, certificates, sent_reminders,
                       nextCertId, nextEventId, served_documents, nextServedId,
                       nextPropertyId, tieBreak, outbox, calls>>

\* TimelineGenerator(db, user_id).get_overdue_events(property_id, tenancy_id)
GetOverdueEvents(user_id, property_id, tenancy_id) ==
    LET rows == overdue_rows(user_id, property_id, tenancy_id)
    IN  /\ events' = persist_overdue(events, rows, user_id)
        /\ ret' = Ret("get_overdue_events", user_id, property_id, tenancy_id, NULL,
                      {materialize(e) : e \in rows}, {}, "ok", 0)
        /\ UNCHANGED <<delivered, running, today, properties, tenancies, certificates, sent_reminders,
                       nextCertId, nextEventId, served_documents, nextServedId,
                       nextPropertyId, tieBreak, outbox, calls>>

\* TimelineGenerator(db, user_id).mark_complete(event_id)
MarkComplete(user_id, event_id) ==
    /\ calls.complete < MaxCompletes
    /\ events' = update_event_status(events, event_id, user_id, COMPLETED, today)
    /\ ret' = [Ret("mark_complete", user_id, NULL, NULL, NULL, {}, {}, "ok", 0)
                   EXCEPT !.event_id = event_id]
    /\ calls' = [calls EXCEPT !.complete = @ + 1]
    /\ UNCHANGED <<delivered, running, today, properties, tenancies, certificates, sent_reminders,
                   nextCertId, nextEventId, served_documents, nextServedId,
                   nextPropertyId, tieBreak, outbox>>

\* NotificationService(db).get_expiring_items(user_id)
GetExpiringItems(user_id) ==
    /\ ret' = Ret("get_expiring_items", user_id, NULL, NULL, NULL,
                  {}, get_expiring_items(user_id), "ok", 0)
    /\ UNCHANGED <<delivered, running, today, store, outbox, calls>>

\* NotificationService(db).get_expiring_items(), user_id left at None
GetExpiringItemsAll ==
    /\ ret' = Ret("get_expiring_items", NULL, NULL, NULL, NULL,
                  {}, get_expiring_items_all, "ok", 0)
    /\ UNCHANGED <<delivered, running, today, store, outbox, calls>>

\* NotificationService(db).send_reminders(user_id, user_email); transport_ok
\* is whether _send_email returns (TRUE) or raises (FALSE)
SendReminders(user_id, transport_ok) ==
    LET items == get_expiring_items(user_id)
    IN  IF items = {}
        THEN /\ ret' = Ret("send_reminders", user_id, NULL, NULL, NULL,
                           {}, {}, "ok", 0)
             /\ UNCHANGED <<delivered, running, today, store, outbox, calls>>
        ELSE /\ sent_reminders' =
                    send_reminders_markers(sent_reminders, items, user_id, transport_ok)
             /\ outbox' = IF transport_ok THEN Append(outbox, triples(items))
                          ELSE outbox
             /\ delivered' = IF transport_ok
                             THEN delivered \cup event_lines(items, Len(outbox) + 1)
                             ELSE delivered
             /\ ret' = Ret("send_reminders", user_id, NULL, NULL, NULL, {}, items,
                           IF transport_ok THEN "ok" ELSE "error",
                           IF transport_ok THEN Cardinality(items) ELSE 0)
             /\ UNCHANGED <<running, today, properties, tenancies, certificates, events,
                            nextCertId, nextEventId, served_documents, nextServedId,
                            nextPropertyId, tieBreak, calls>>

\* app.py index(): the dashboard of the logged-in owner; it sends the
\* owner's reminders, then shows the overdue events and the first five
\* upcoming events of the next 14 days that are not overdue
index(user_id, transport_ok) ==
    LET items == get_expiring_items(user_id)
        overdue == overdue_rows(user_id, NULL, NULL)
        events1 == persist_overdue(events, overdue, user_id)
        upcoming == upcoming_in(events1, user_id, 14, NULL, NULL)
        overdue_events == {materialize(e) : e \in overdue}
        upcoming_events ==
            without_overdue(sorted_upcoming({materialize(e) : e \in upcoming}),
                            {e.id : e \in overdue_events})
    IN  /\ sent_reminders' =
              IF items = {} THEN sent_reminders
              ELSE send_reminders_markers(sent_reminders, items, user_id, transport_ok)
        /\ outbox' = IF items # {} /\ transport_ok
                     THEN Append(outbox, triples(items)) ELSE outbox
        /\ delivered' = IF items # {} /\ transport_ok
                        THEN delivered \cup event_lines(items, Len(outbox) + 1)
                        ELSE delivered
        /\ events' = persist_overdue(events1, upcoming, user_id)
        /\ ret' = [Ret("index", user_id, NULL, NULL, 14, overdue_events, {}, "ok", 0)
                      EXCEPT !.list =
                          IF Len(upcoming_events) > 5
                          THEN SubSeq(upcoming_events, 1, 5) ELSE upcoming_events]
        /\ UNCHANGED <<running, today, properties, tenancies, certificates, nextCertId,
                       nextEventId, served_documents, nextServedId,
                       nextPropertyId, tieBreak, calls>>

\* app.py timeline(): the timeline view with its days and property_id
\* query parameters
timeline(user_id, days, property_id) ==
    LET overdue == overdue_rows(user_id, property_id, NULL)
        events1 == persist_overdue(events, overdue, user_id)
        upcoming == upcoming_in(events1, user_id, days, property_id, NULL)
        overdue_events == {materialize(e) : e \in overdue}
    IN  /\ events' = persist_overdue(events1, upcoming, user_id)
        /\ ret' = [Ret("timeline", user_id, property_id, NULL, days,
                       overdue_events, {}, "ok", 0)
                      EXCEPT !.list =
                          without_overdue(
                              sorted_upcoming({materialize(e) : e \in upcoming}),
                              {e.id : e \in overdue_events})]
        /\ UNCHANGED <<delivered, running, today, properties, tenancies, certificates, sent_reminders,
                       nextCertId, nextEventId, served_documents, nextServedId,
                       nextPropertyId, tieBreak, outbox, calls>>

\* send_reminders(user_id, user_email) in request r, first part:
\* items = self.get_expiring_items(user_id), and the return when it is empty
SendRemindersCheck(r, user_id) ==
    LET items == get_expiring_items(user_id)
    IN  /\ running[r].pc = "idle"
        /\ IF items = {}
           THEN /\ ret' = Ret("send_reminders", user_id, NULL, NULL, NULL,
                              {}, {}, "ok", 0)
                /\ UNCHANGED running
           ELSE /\ ret' = Ret("send_reminders:items", user_id, NULL, NULL, NULL,
                              {}, items, "ok", 0)
                /\ running' = [running EXCEPT
                                  ![r] = [pc |-> "email", user_id |-> user_id,
                                          items |-> items]]
        /\ UNCHANGED <<today, store, outbox, delivered, calls>>

\* send_reminders in request r, second part: self._send_email(...), which
\* returns (transport_ok) or raises into the except branch
SendRemindersEmail(r, transport_ok) ==
    /\ running[r].pc = "email"
    /\ IF transport_ok
       THEN /\ outbox' = Append(outbox, triples(running[r].items))
            /\ delivered' = delivered \cup event_lines(running[r].items, Len(outbox) + 1)
            /\ running' = [running EXCEPT ![r].pc = "mark"]
            /\ ret' = Ret("send_reminders:email", running[r].user_id, NULL, NULL,
                          NULL, {}, running[r].items, "ok", 0)
       ELSE /\ UNCHANGED <<outbox, delivered>>
            /\ running' = [running EXCEPT ![r] = Idle]
            /\ ret' = Ret("send_reminders", running[r].user_id, NULL, NULL,
                          NULL, {}, running[r].items, "error", 0)
    /\ UNCHANGED <<today, store, calls>>

\* send_reminders in request r, last part: the "Mark all as sent" loop and
\* the return; a _mark_reminder_sent that raises ends in the except branch
SendRemindersMark(r) ==
    LET items == running[r].items
        user_id == running[r].user_id
        raised == \E i \in items :
                      mark_reminder_raises(sent_reminders, i.item_type, i.item_id,
                                           label_days(i), user_id)
    IN  /\ running[r].pc = "mark"
        /\ sent_reminders' = mark_all_sent(sent_reminders, items, user_id)
        /\ running' = [running EXCEPT ![r] = Idle]
        /\ ret' = Ret("send_reminders", user_id, NULL, NULL, NULL, {}, items,
                      IF raised THEN "error" ELSE "ok",
                      IF raised THEN 0 ELSE Cardinality(items))
        /\ UNCHANGED <<today, properties, tenancies, certificates, events,
                       nextCertId, nextEventId, served_documents, nextServedId,
                       nextPropertyId, tieBreak, outbox, delivered, calls>>

\* the calendar: date.today() moves on
AdvanceDay(step) ==
    /\ calls.advance < MaxAdvances
    /\ today' = today + step
    /\ ret' = Ret("advance_day", NULL, NULL, NULL, NULL, {}, {}, "ok", 0)
    /\ calls' = [calls EXCEPT !.advance = @ + 1]
    /\ UNCHANGED <<delivered, running, store, outbox>>

\* (property_id, tenancy_id) arguments of the two queries; 2 is an id no row has
QueryFilters == {<<NULL, NULL>>, <<1, NULL>>, <<NULL, 2>>}

\* the events mark_complete is called on, by event_type
CompleteTypes == {"gas_safety_serve", "gas_safety_renewal"}

\* (issue_date, expiry_date) of the certificates uploaded
CertDates == {<<NULL, 1100>>, <<900, 1010>>, <<950, NULL>>, <<950, 1100>>}

\* (issue_date, expiry_date) of the certificates the reminder runs see
ReminderCertDates == {<<900, 1010>>, <<950, NULL>>, <<950, 1100>>}

Upload(types, dates) ==
    \E u \in Users, p \in properties, ty \in types, d \in dates :
        p.user_id = u /\ CreateCertificate(u, p.id, ty, d[1], d[2])

Generate ==
    \E u \in Users, t \in tenancies : t.user_id = u /\ GenerateForTenancy(u, t)

Upcoming ==
    \E u \in Users, d \in LookaheadDays, f \in QueryFilters :
        GetUpcomingEvents(u, d, f[1], f[2])

Overdue ==
    \E u \in Users, f \in QueryFilters : GetOverdueEvents(u, f[1], f[2])

Complete ==
    \E u \in Users, e \in events :
        e.event_type \in CompleteTypes /\ MarkComplete(u, e.id)

Expiring ==
    \E u \in Users : GetExpiringItems(u)

Send ==
    \E u \in Users, ok \in BOOLEAN : SendReminders(u, ok)

Advance ==
    \E s \in DaySteps : AdvanceDay(s)

\* the days query parameter of the timeline view; 90 is its default
ViewDays == {-20, 14, 90}

Dashboard ==
    \E u \in Users, ok \in BOOLEAN : index(u, ok)

TimelineView ==
    \E u \in Users, d \in ViewDays, p \in {NULL, 1} : timeline(u, d, p)

GenerateFails ==
    \E u \in Users, t \in tenancies, k \in 0..Len(rules) :
        t.user_id = u /\ GenerateForTenancyFails(u, t, k)

\* the owners of the two-owner store
Owners == {1, 2}

\* (property_id, tenancy_id) arguments an owner passes to the two queries
OwnerFilters == {<<NULL, NULL>>, <<1, NULL>>, <<NULL, 1>>}

CreatePropertyAny ==
    \E u \in Owners : CreateProperty(u)

ListPropertiesAny ==
    \E u \in Owners : ListProperties(u)

\* generate_for_tenancy on any stored tenancy, the caller's or not
GenerateAny ==
    \E u \in Owners, t \in tenancies : GenerateForTenancy(u, t)

UpcomingAny ==
    \E u \in Owners, f \in OwnerFilters : GetUpcomingEvents(u, 14, f[1], f[2])

OverdueAny ==
    \E u \in Owners, f \in OwnerFilters : GetOverdueEvents(u, f[1], f[2])

\* mark_complete on the id of any stored event, the caller's or not
CompleteAny ==
    \E u \in Owners, e \in events :
        e.event_type = "gas_safety_serve" /\ MarkComplete(u, e.id)

\* an owner uploads a gas safety certificate for a property of theirs
UploadGas ==
    \E u \in Owners, pr \in properties :
        pr.user_id = u /\ CreateCertificate(u, pr.id, "gas_safety", 950, 1100)

\* an owner regenerates the timeline of a tenancy of theirs
GenerateOwn ==
    \E u \in Owners, t \in tenancies : t.user_id = u /\ GenerateForTenancy(u, t)

\* app.py serve_document: an owner marks How to Rent served for a tenancy
\* of theirs
ServeOwn ==
    \E u \in Owners, t \in tenancies :
        t.user_id = u /\ MarkDocumentServed(t.id, "how_to_rent", 995, u, "", "")

DeletePropertyAny ==
    \E u \in Owners, pr \in {1, 2} : DeleteProperty(pr, u)

\* the document types served, two of RequiredDocument
ServedTypes == {"how_to_rent", "epc"}

\* (served_date, proof_path, notes) of a mark_document_served call
ServeInputs == {<<995, "", "">>, <<1000, "proof.pdf", "by post">>}

\* the tenancy ids passed to the served-document operations
ServedTenancies == {1, 3}

ServeAny ==
    \E u \in Owners, t \in ServedTenancies, ty \in ServedTypes, i \in ServeInputs :
        MarkDocumentServed(t, ty, i[1], u, i[2], i[3])

UnserveAny ==
    \E u \in Owners, t \in ServedTenancies, ty \in ServedTypes :
        DeleteServedDocument(t, ty, u)

\* (issue_date, expiry_date) entered in the certificate form; NULL is a
\* field left empty
UpdateDates == {<<NULL, NULL>>, <<NULL, 1200>>, <<960, NULL>>}

UpdateCert ==
    \E u \in Users, c \in certificates, d \in UpdateDates :
        c.user_id = u /\ UpdateCertificate(u, c.id, d[1], d[2])

SendCheck ==
    \E r \in Requests, u \in Users : SendRemindersCheck(r, u)

SendEmail ==
    \E r \in Requests, ok \in BOOLEAN : SendRemindersEmail(r, ok)

SendMark ==
    \E r \in Requests : SendRemindersMark(r)

\* rule evaluation: certificates are uploaded and timelines regenerated
NextGenerate == Upload(RenewalTypes, CertDates) \/ Generate

InitGenerate == InitWith(StartDates, Deposits, {"first", "last"})

SpecGenerate == InitGenerate /\ [][NextGenerate]_vars

\* generation for tenancies that started 28 and 30 days ago
NextStatus == Upload(ReminderTypes, ReminderCertDates) \/ Generate

InitStatus == InitWith({970, 972}, Deposits, {"first"})

SpecStatus == InitStatus /\ [][NextStatus]_vars

\* certificates uploaded and corrected while timelines are stored
NextCertificates == Upload(ReminderTypes, ReminderCertDates) \/ UpdateCert \/ Generate

InitCertificates == InitWith({1000}, {1000}, {"first"})

SpecCertificates == InitCertificates /\ [][NextCertificates]_vars

\* the timeline over time: generation, the two queries, completion
NextTimeline == Generate \/ Upcoming \/ Overdue \/ Complete \/ Advance

InitTimeline == InitWith(StartDates, Deposits, {"first"})

SpecTimeline == InitTimeline /\ [][NextTimeline]_vars

\* the reminder scheduler over time
NextReminders ==
    Upload(ReminderTypes, ReminderCertDates) \/ Generate \/ Expiring \/ Send \/ Advance

InitReminders == InitWith({990, 1000}, {1000}, {"first"})

SpecReminders == InitReminders /\ [][NextReminders]_vars

\* two requests of one owner whose send_reminders calls may overlap
NextOverlap == Generate \/ SendCheck \/ SendEmail \/ SendMark \/ Advance

InitOverlap == InitWith({1000}, {1000}, {"first"})

SpecOverlap == InitOverlap /\ [][NextOverlap]_vars

\* reminders sent between regenerations of a timeline
NextResend == Upload(ReminderTypes, ReminderCertDates) \/ Generate \/ Send \/ Advance

InitResend == InitWith({1000}, {1000}, {"first"})

SpecResend == InitResend /\ [][NextResend]_vars

\* the reminder window asked without an owner
NextSystemWide ==
    Upload(ReminderTypes, ReminderCertDates) \/ Generate \/ GetExpiringItemsAll
      \/ Expiring \/ Advance

InitSystemWide == InitWith({990, 1000}, {1000}, {"first"})

SpecSystemWide == InitSystemWide /\ [][NextSystemWide]_vars

\* the two views that show the overdue and the upcoming events together
NextViews == Generate \/ Dashboard \/ TimelineView \/ Complete \/ Advance

InitViews == InitWith({990, 1000}, {1000}, {"first"})

SpecViews == InitViews /\ [][NextViews]_vars

\* regeneration with record-store calls that may raise
NextStoreFailure == Generate \/ GenerateFails

InitStoreFailure == InitWith(StartDates, Deposits, {"first"})

SpecStoreFailure == InitStoreFailure /\ [][NextStoreFailure]_vars

\* two owners working on one store
NextOwners ==
    \/ CreatePropertyAny
    \/ ListPropertiesAny
    \/ GenerateAny
    \/ UpcomingAny
    \/ OverdueAny
    \/ CompleteAny

SpecOwners == InitOwners /\ [][NextOwners]_vars

\* properties with their records, and their deletion
NextCascade == UploadGas \/ GenerateOwn \/ ServeOwn \/ DeletePropertyAny

SpecCascade == InitCascade /\ [][NextCascade]_vars

\* documents served, served again and unserved
NextServed == ServeAny \/ UnserveAny

SpecServed == InitCascade /\ [][NextServed]_vars

----------------------------------------------------------------------------
(* Properties of generate_for_tenancy, under SpecGenerate *)

\* the tenancy the last generate_for_tenancy call was given
GeneratedTenancy == CHOOSE t \in tenancies : t.id = ret.tenancy_id

\* the stored events of a tenancy
EventsOf(evs, tenancy_id) == {e \in evs : e.tenancy_id = tenancy_id}

\* the (event_type, due_date) pairs of a set of events
DueByType(evs) == {<<e.event_type, e.due_date>> : e \in evs}

\* the due dates the created events of one event_type have
DueOf(evs, event_type) == {e.due_date : e \in {f \in evs : f.event_type = event_type}}

\* the certificates of one type on a property that no other outranks by
\* issue date (an undated certificate ranks below every dated one)
LatestCerts(property_id, cert_type, user_id) ==
    LET rows == {c \in certificates :
                    /\ c.property_id = property_id
                    /\ c.certificate_type = cert_type
                    /\ c.user_id = user_id}
    IN  {c \in rows : \A d \in rows :
            d.issue_date = NULL \/ (c.issue_date # NULL /\ d.issue_date <= c.issue_date)}

RenewalEvent(cert_type) ==
    CASE cert_type = "gas_safety" -> "gas_safety_renewal"
      [] cert_type = "eicr" -> "eicr_renewal"
      [] cert_type = "epc" -> "epc_renewal"

\* C4: a generate_for_tenancy call that directly follows one on the same
\* tenancy (tenancy, certificates and day unchanged) leaves in the store, for
\* that tenancy, exactly the events it created: one per event_type at most,
\* as many as the call before created and with the same due dates.
C4_RegenerateIdempotent ==
    [][(/\ ret.op = "generate_for_tenancy"
        /\ ret'.op = "generate_for_tenancy"
        /\ ret'.tenancy_id = ret.tenancy_id)
       => /\ EventsOf(events', ret'.tenancy_id) = ret'.events
          /\ \A e, f \in EventsOf(events', ret'.tenancy_id) :
                e.event_type = f.event_type => e = f
          /\ Cardinality(ret'.events) = Cardinality(ret.events)
          /\ DueByType(ret'.events) = DueByType(ret.events)]_vars

C4_Witness ==
    /\ ret.op = "generate_for_tenancy"
    /\ calls.generate = 2
    /\ certificates # {}
    /\ Cardinality(ret.events) = Len(rules)
    /\ EventsOf(events, ret.tenancy_id) = ret.events

Fallback(t, cert_type) ==
    IF t.tenancy_start_date = NULL THEN {}
    ELSE CASE cert_type = "gas_safety" -> {t.tenancy_start_date + 365}
           [] cert_type = "eicr" -> {t.tenancy_start_date + 1825}
           [] cert_type = "epc" -> {t.tenancy_start_date}

C6_FallbackGasEicr ==
    (ret.op = "generate_for_tenancy" /\ GeneratedTenancy.tenancy_start_date # NULL) =>
        LET t == GeneratedTenancy
        IN  /\ LatestCerts(t.property_id, "gas_safety", ret.user_id) = {} =>
                /\ DueOf(ret.events, "gas_safety_renewal") = {t.tenancy_start_date + 365}
                /\ DueOf(EventsOf(events, t.id), "gas_safety_renewal")
                        = {t.tenancy_start_date + 365}
            /\ LatestCerts(t.property_id, "eicr", ret.user_id) = {} =>
                /\ DueOf(ret.events, "eicr_renewal") = {t.tenancy_start_date + 1825}
                /\ DueOf(EventsOf(events, t.id), "eicr_renewal")
                        = {t.tenancy_start_date + 1825}

C6_Witness ==
    /\ ret.op = "generate_for_tenancy"
    /\ GeneratedTenancy.tenancy_start_date = 640
    /\ \A c \in certificates : c.certificate_type = "epc"
    /\ certificates # {}
    /\ DueOf(ret.events, "gas_safety_renewal") = {1005}
    /\ DueOf(ret.events, "eicr_renewal") = {2465}

\* C7 as claimed: without an EPC certificate the epc_renewal event is due ten
\* years after the tenancy start.
C7_EpcTenYears ==
    (ret.op = "generate_for_tenancy" /\ GeneratedTenancy.tenancy_start_date # NULL) =>
        (LatestCerts(GeneratedTenancy.property_id, "epc", ret.user_id) = {} =>
            DueOf(ret.events, "epc_renewal")
                = {GeneratedTenancy.tenancy_start_date + 3650})

\* C7 as amended: without an EPC certificate the epc_renewal event is due on
\* the tenancy start date itself.
C7_EpcDueAtStart ==
    (ret.op = "generate_for_tenancy" /\ GeneratedTenancy.tenancy_start_date # NULL) =>
        (LatestCerts(GeneratedTenancy.property_id, "epc", ret.user_id) = {} =>
            /\ DueOf(ret.events, "epc_renewal") = {GeneratedTenancy.tenancy_start_date}
            /\ DueOf(EventsOf(events, ret.tenancy_id), "epc_renewal")
                    = {GeneratedTenancy.tenancy_start_date})

C7_Witness ==
    /\ ret.op = "generate_for_tenancy"
    /\ GeneratedTenancy.tenancy_start_date = 990
    /\ \E c \in certificates : c.certificate_type = "gas_safety"
    /\ \A c \in certificates : c.certificate_type # "epc"
    /\ DueOf(ret.events, "epc_renewal") = {990}

\* C8: for a tenancy with a start date S and a deposit, the created events
\* are due: deposit_protection S + 30, prescribed_info S + 30,
\* gas_safety_serve S, eicr_serve S + 28, how_to_rent S.
C8_FixedOffsets ==
    (/\ ret.op = "generate_for_tenancy"
     /\ GeneratedTenancy.tenancy_start_date # NULL
     /\ GeneratedTenancy.deposit_amount > 0) =>
        LET S == GeneratedTenancy.tenancy_start_date
            stored == EventsOf(events, ret.tenancy_id)
        IN  /\ DueOf(stored, "deposit_protection") = {S + 30}
            /\ DueOf(stored, "prescribed_info") = {S + 30}
            /\ DueOf(stored, "gas_safety_serve") = {S}
            /\ DueOf(stored, "eicr_serve") = {S + 28}
            /\ DueOf(stored, "how_to_rent") = {S}
            /\ stored = ret.events

C8_Witness ==
    /\ ret.op = "generate_for_tenancy"
    /\ GeneratedTenancy.tenancy_start_date = 1000
    /\ GeneratedTenancy.deposit_amount = 1000
    /\ DueOf(events, "deposit_protection") = {1030}
    /\ DueOf(events, "eicr_serve") = {1028}

\* the event types of every rule but the two deposit rules
NonDepositTypes ==
    {rules[i].event_type : i \in 1..Len(rules)} \
        {"deposit_protection", "prescribed_info"}

\* C9: after generate_for_tenancy on a tenancy without deposit the store
\* holds no deposit_protection and no prescribed_info event of the tenancy,
\* and (the tenancy having a start date) one event of every other rule.
C9_NoDepositEvents ==
    (ret.op = "generate_for_tenancy" /\ GeneratedTenancy.deposit_amount = 0) =>
        LET stored == EventsOf(events, ret.tenancy_id)
        IN  /\ \A e \in stored :
                e.event_type \notin {"deposit_protection", "prescribed_info"}
            /\ \A e \in ret.events :
                e.event_type \notin {"deposit_protection", "prescribed_info"}
            /\ GeneratedTenancy.tenancy_start_date # NULL =>
                /\ {e.event_type : e \in stored} = NonDepositTypes
                /\ Cardinality(stored) = Cardinality(NonDepositTypes)

C9_Witness ==
    /\ ret.op = "generate_for_tenancy"
    /\ GeneratedTenancy.deposit_amount = 0
    /\ GeneratedTenancy.tenancy_start_date = 1000
    /\ Cardinality(EventsOf(events, ret.tenancy_id)) = 11

\* C17: generate_for_tenancy on a tenancy without start date returns
\* normally; every event it creates (and leaves stored for the tenancy) is
\* the renewal event of a certificate type, due on the expiry date of a
\* latest certificate of that type on the property, at most one per type,
\* and every type whose latest certificates all carry an expiry date has one.
C17_NoStartDate ==
    (ret.op = "generate_for_tenancy" /\ GeneratedTenancy.tenancy_start_date = NULL) =>
        /\ ret.status = "ok"
        /\ EventsOf(events, ret.tenancy_id) = ret.events
        /\ \A e \in ret.events :
              \E ty \in RenewalTypes :
                  /\ e.event_type = RenewalEvent(ty)
                  /\ \E c \in LatestCerts(GeneratedTenancy.property_id, ty, ret.user_id) :
                        c.expiry_date # NULL /\ e.due_date = c.expiry_date
        /\ \A e, f \in ret.events : e.event_type = f.event_type => e = f
        /\ \A ty \in RenewalTypes :
              LET latest == LatestCerts(GeneratedTenancy.property_id, ty, ret.user_id)
              IN  (latest # {} /\ \A c \in latest : c.expiry_date # NULL) =>
                      \E e \in ret.events : e.event_type = RenewalEvent(ty)

C17_Witness ==
    /\ ret.op = "generate_for_tenancy"
    /\ GeneratedTenancy.tenancy_start_date = NULL
    /\ GeneratedTenancy.deposit_amount > 0
    /\ Cardinality(ret.events) = 1
    /\ Cardinality(certificates) = 2
    /\ \E c \in certificates : c.expiry_date = NULL
    /\ \E c, d \in certificates : c.certificate_type # d.certificate_type

----------------------------------------------------------------------------
(* Properties of the two timeline queries, under SpecTimeline *)

\* C10: every event get_overdue_events or get_upcoming_events returns that
\* is due before today is overdue in the returned object and in the store,
\* and get_overdue_events returns exactly the stored events of the owner that
\* match the property/tenancy filter, are not completed and are due before
\* today, however long ago.
C10_LazyOverdue ==
    /\ ret.op \in {"get_overdue_events", "get_upcoming_events"} =>
          \A e \in ret.events :
              e.due_date < today =>
                  /\ e.status = OVERDUE
                  /\ \E f \in events : f.id = e.id /\ f.status = OVERDUE
    /\ ret.op = "get_overdue_events" =>
          /\ ret.events \subseteq events
          /\ ret.events =
                {e \in events :
                    /\ e.user_id = ret.user_id
                    /\ (ret.property_id # NULL => e.property_id = ret.property_id)
                    /\ (ret.tenancy_id # NULL => e.tenancy_id = ret.tenancy_id)
                    /\ e.status # COMPLETED
                    /\ e.due_date # NULL
                    /\ e.due_date < today}

\* a tenancy started on day 640: the events due 640 were created overdue,
\* the ones due 1005 became overdue later; a completed event stays out
C10_Witness ==
    /\ ret.op = "get_overdue_events"
    /\ ret.property_id = 1
    /\ today > 1005
    /\ \E e \in ret.events : e.due_date = 640
    /\ \E e \in ret.events : e.due_date = 1005 /\ e.status = OVERDUE
    /\ \E e \in events : e.status = COMPLETED /\ e.due_date < today

\* C16 as claimed: a generate_for_tenancy call in which a record-store
\* call raises leaves the stored events of the tenancy exactly as they were
\* before the call.
C16_AbortsWhole ==
    [][(ret'.op = "generate_for_tenancy" /\ ret'.status = "error") =>
          EventsOf(events', ret'.tenancy_id) = EventsOf(events, ret'.tenancy_id)]_vars

\* the rank of a priority: critical < high < medium < low
PriorityRank ==
    [critical |-> 0, high |-> 1, medium |-> 2, low |-> 3]

\* the elements of a list
Listed(list) == {list[i] : i \in 1..Len(list)}

\* C11: get_upcoming_events(days, filters) returns, each once, exactly the
\* stored events of the owner that match the filters, are not completed and
\* have a due date no later than today + days (that day and every past day
\* included), in ascending order of due date and, among equal due dates, of
\* priority rank.
C11_UpcomingSorted ==
    ret.op = "get_upcoming_events" =>
        /\ Listed(ret.list) =
              {e \in events :
                  /\ e.user_id = ret.user_id
                  /\ (ret.property_id # NULL => e.property_id = ret.property_id)
                  /\ (ret.tenancy_id # NULL => e.tenancy_id = ret.tenancy_id)
                  /\ e.status # COMPLETED
                  /\ e.due_date # NULL
                  /\ e.due_date <= today + ret.days}
        /\ Len(ret.list) = Cardinality(Listed(ret.list))
        /\ \A i, j \in 1..Len(ret.list) :
              i < j =>
                \/ ret.list[i].due_date < ret.list[j].due_date
                \/ /\ ret.list[i].due_date = ret.list[j].due_date
                   /\ PriorityRank[ret.list[i].priority]
                        <= PriorityRank[ret.list[j].priority]

C11_Witness ==
    /\ ret.op = "get_upcoming_events"
    /\ \E e \in Listed(ret.list) : e.due_date = today + ret.days
    /\ \E e \in Listed(ret.list) : e.due_date < today
    /\ \E e, f \in Listed(ret.list) :
          e.due_date = f.due_date /\ e.priority # f.priority
    /\ \E e, f \in Listed(ret.list) :
          e.due_date < f.due_date
            /\ PriorityRank[e.priority] > PriorityRank[f.priority]
    /\ \E e \in events : e.due_date # NULL /\ e.due_date > today + ret.days
    /\ \E e \in events : e.status = COMPLETED /\ e.due_date <= today + ret.days

\* C12: in the dashboard and in the timeline view, which call
\* get_overdue_events, then get_upcoming_events and drop from the upcoming
\* list the ids of the overdue events, no event id is in both lists shown.
C12_ListsDisjoint ==
    ret.op \in {"index", "timeline"} =>
        {e.id : e \in Listed(ret.list)} \cap {e.id : e \in ret.events} = {}

C12_Witness ==
    /\ ret.op \in {"index", "timeline"}
    /\ ret.list # <<>>
    /\ \E e \in ret.events : e.due_date <= today + ret.days
    /\ \E e \in events : e.status = COMPLETED

\* C13: mark_complete(event_id) on an event of the calling owner leaves
\* every other stored event as it was and stores the event itself with
\* status completed and completed_date today, its other fields unchanged;
\* this holds as well when the event was completed already.
C13_MarkComplete ==
    [][ret'.op = "mark_complete" =>
         /\ \A e \in events : e.id # ret'.event_id => e \in events'
         /\ \A e \in events' : e.id # ret'.event_id => e \in events
         /\ \A e \in events :
               (e.id = ret'.event_id /\ e.user_id = ret'.user_id) =>
                  \E f \in events' :
                     /\ f.id = e.id
                     /\ f.status = COMPLETED
                     /\ f.completed_date = today
                     /\ [f EXCEPT !.status = e.status,
                                  !.completed_date = e.completed_date] = e
         /\ \A e, f \in events' : e.id = f.id => e = f]_vars

C13_Witness ==
    /\ ret.op = "mark_complete"
    /\ calls.complete = 2
    /\ calls.generate = 1
    /\ calls.advance = 1
    /\ \E e \in events :
          /\ e.id = ret.event_id
          /\ e.user_id = ret.user_id
          /\ e.status = COMPLETED
          /\ e.completed_date = today
          /\ \A f \in events : f.status = COMPLETED => f = e
    /\ \E e \in events : e.status = OVERDUE
    /\ \E e \in events : e.status = PENDING

----------------------------------------------------------------------------
(* Properties of the reminder scheduler, under SpecReminders *)

SameItem(a, b) == a.item_type = b.item_type /\ a.item_id = b.item_id

\* C1: no (item_type, item_id, threshold_days) triple is reported by two
\* delivered emails, and get_expiring_items right after a successful
\* send_reminders returns none of the items that send included.
C1_AtMostOnce ==
    /\ \A i, j \in 1..Len(outbox) : i < j => outbox[i] \cap outbox[j] = {}
    /\ (ret.op = "send_reminders" /\ ret.status = "ok") =>
          \A a \in get_expiring_items(ret.user_id) :
              \A b \in ret.items : ~SameItem(a, b)

C1_Witness ==
    /\ ret.op = "send_reminders"
    /\ ret.status = "ok"
    /\ ret.sent > 0
    /\ Len(outbox) >= 2
    /\ \E a \in ret.items : a.item_type = "certificate"
    /\ \E a \in ret.items : a.item_type = "event"

\* C2: a send_reminders call whose mail transport fails returns an error
\* result with sent = 0 and leaves the markers as they were, so that
\* get_expiring_items returns the same items as before the call, the ones
\* the failed call had computed.
C2_FailureKeepsRetry ==
    [][\A u \in Users :
          (ret'.op = "send_reminders" /\ ret'.status = "error" /\ ret'.user_id = u)
          => /\ ret'.sent = 0
             /\ sent_reminders' = sent_reminders
             /\ get_expiring_items(u)' = get_expiring_items(u)
             /\ get_expiring_items(u)' = ret'.items
             /\ outbox' = outbox]_vars

C2_Witness ==
    /\ ret.op = "send_reminders"
    /\ ret.status = "error"
    /\ ret.items # {}
    /\ sent_reminders # {}
    /\ get_expiring_items(ret.user_id) = ret.items

\* C3 as claimed: a latest certificate or a pending event due d days ahead,
\* 7 < d <= 14, without a marker for threshold 14, is returned by
\* get_expiring_items with label "2 weeks".
C3_TwoWeeksLabel ==
    ret.op = "get_expiring_items" =>
        /\ \A p \in list_properties(ret.user_id), k \in 1..Len(CertificateType) :
              \A c \in get_latest_certificate(p.id, CertificateType[k], ret.user_id) :
                  (/\ c.expiry_date # NULL
                   /\ c.expiry_date - today > 7
                   /\ c.expiry_date - today <= 14
                   /\ ~reminder_already_sent("certificate", c.id, 14, ret.user_id))
                  => \E a \in ret.items :
                        /\ a.item_type = "certificate"
                        /\ a.item_id = c.id
                        /\ a.reminder_label = "2 weeks"
        /\ \A e \in list_events(ret.user_id, NULL, NULL) :
              (/\ e.due_date # NULL
               /\ e.status = PENDING
               /\ e.due_date - today > 7
               /\ e.due_date - today <= 14
               /\ ~reminder_already_sent("event", e.id, 14, ret.user_id))
              => \E a \in ret.items :
                    /\ a.item_type = "event"
                    /\ a.item_id = e.id
                    /\ a.reminder_label = "2 weeks"


----------------------------------------------------------------------------
(* Properties of the store with two owners, under SpecOwners *)

\* the stored events of the owners other than user_id
EventsOfOthers(evs, user_id) == {e \in evs : e.user_id # user_id}

\* C18: create_property for owner u adds one row to what list_properties(u)
\* returns and leaves what it returns for every other owner; list_properties(u)
\* returns the stored properties of owner u only; and a generate_for_tenancy,
\* get_upcoming_events, get_overdue_events or mark_complete call of owner u,
\* whatever tenancy, filter or event id it is given, returns events of owner
\* u only and leaves the stored events of every other owner as they were.
C18_OwnerIsolation ==
    [][\A u \in Owners :
          ret'.user_id = u =>
            /\ ret'.op = "create_property" =>
                  \A v \in Owners :
                      list_properties(v)' =
                          IF v = u
                          THEN list_properties(v)
                                 \cup {[id |-> ret'.property_id, user_id |-> u]}
                          ELSE list_properties(v)
            /\ ret'.op = "list_properties" =>
                  /\ \A p \in ret'.items : p.user_id = u
                  /\ \A p \in properties : p.user_id = u => p \in ret'.items
            /\ ret'.op \in {"generate_for_tenancy", "get_upcoming_events",
                             "get_overdue_events", "mark_complete"} =>
                  /\ EventsOfOthers(events', u) = EventsOfOthers(events, u)
                  /\ \A e \in ret'.events \cup Listed(ret'.list) : e.user_id = u]_vars

C18_Witness ==
    /\ ret.op = "mark_complete"
    /\ \E e \in events :
          /\ e.id = ret.event_id
          /\ e.user_id # ret.user_id
          /\ e.status # COMPLETED
    /\ \E e, f \in events : e.tenancy_id = f.tenancy_id /\ e.user_id # f.user_id
    /\ \E e \in events : e.status = COMPLETED
    /\ Cardinality(properties) = MaxProperties
    /\ \E p \in properties : p.id > 2 /\ p.user_id = 2

\* a record of owner user_id that refers to property property_id, directly
\* or through one of the tenancies tenancy_ids
RefersTo(r, f, property_id, tenancy_ids, user_id) ==
    /\ r.user_id = user_id
    /\ \/ f = "property_id" /\ r.property_id = property_id
       \/ f = "tenancy_id" /\ r.tenancy_id \in tenancy_ids
       \/ f = "event" /\ (r.property_id = property_id \/ r.tenancy_id \in tenancy_ids)
       \/ f = "id" /\ r.id = property_id

\* the rows of a table that do not refer to the property
Others(table, f, property_id, tenancy_ids, user_id) ==
    {r \in table : ~RefersTo(r, f, property_id, tenancy_ids, user_id)}

\* C19: delete_property(p, owner) leaves in the store no property p of the
\* owner and no tenancy, certificate, compliance event or served document of
\* the owner that refers to p or to one of the owner's tenancies of p; every
\* other stored record is left as it was.
C19_DeleteCascades ==
    [][ret'.op = "delete_property" =>
         LET pid == ret'.property_id
             u == ret'.user_id
             ts == {t.id : t \in {t \in tenancies : t.property_id = pid
                                                        /\ t.user_id = u}}
         IN  /\ properties' = Others(properties, "id", pid, ts, u)
             /\ tenancies' = Others(tenancies, "property_id", pid, ts, u)
             /\ certificates' = Others(certificates, "property_id", pid, ts, u)
             /\ events' = Others(events, "event", pid, ts, u)
             /\ served_documents' = Others(served_documents, "tenancy_id", pid, ts, u)]_vars

C19_Witness ==
    /\ ret.op = "delete_property"
    /\ ret.user_id = 1
    /\ properties = {[id |-> 2, user_id |-> 1]}
    /\ {t.id : t \in tenancies} = {2, 3}
    /\ nextCertId = 3
    /\ {c.property_id : c \in certificates} = {2}
    /\ nextServedId = 3
    /\ {d.tenancy_id : d \in served_documents} = {2}
    /\ nextEventId > 20
    /\ {e.tenancy_id : e \in events} = {2}

\* the served-document records of one tenancy and document type
ServedFor(docs, tenancy_id, document_type) ==
    {d \in docs : d.tenancy_id = tenancy_id /\ d.document_type = document_type}

\* C20: after a mark_document_served or delete_served_document call the
\* store holds at most one served-document record per tenancy and document
\* type; mark_document_served for a type already served to the tenancy
\* adds no record and stores the served date, proof path and notes given in
\* the existing one, and otherwise adds one record; no other record changes.
C20_ServedUpsert ==
    [][/\ ret'.op \in {"mark_document_served", "delete_served_document"} =>
            \A a, b \in served_documents' :
                (a.tenancy_id = b.tenancy_id /\ a.document_type = b.document_type)
                    => a = b
       /\ ret'.op = "mark_document_served" =>
            \A i \in ret'.items :
                LET old == ServedFor(served_documents, ret'.tenancy_id, i.document_type)
                    new == ServedFor(served_documents', ret'.tenancy_id, i.document_type)
                IN  /\ served_documents' \ new = served_documents \ old
                    /\ Cardinality(new) = 1
                    /\ \A d \in new :
                          /\ d.served_date = i.served_date
                          /\ d.proof_path = i.proof_path
                          /\ d.notes = i.notes
                          /\ \A o \in old : d.id = o.id /\ d.user_id = o.user_id]_vars

C20_Witness ==
    /\ ret.op = "mark_document_served"
    /\ Cardinality(served_documents) = 2
    /\ \E d \in served_documents, i \in ret.items :
          /\ d.tenancy_id = ret.tenancy_id
          /\ d.document_type = i.document_type
          /\ d.user_id # ret.user_id
          /\ d.notes = "by post"
          /\ d.id = 1
    /\ nextServedId = 3

\* the thresholds of the reminder schedule, in the order they are tried
Schedule == <<90, 60, 28, 21, 14, 7>>

\* the positions of the thresholds that 0 < days_until <= threshold holds for
Matching(days_until) ==
    {i \in 1..Len(Schedule) : 0 < days_until /\ days_until <= Schedule[i]}

\* C14: the items one get_expiring_items call returns differ in
\* (item_type, item_id); each matches a threshold and is labelled with the
\* first threshold of 90, 60, 28, 21, 14, 7 that it matches, and the owner
\* has no sent_reminders marker for the item and that threshold.
C14_OneThreshold ==
    ret.op = "get_expiring_items" =>
        \A a \in ret.items :
            /\ \A b \in ret.items : SameItem(a, b) => a = b
            /\ Matching(a.days_until_expiry) # {}
            /\ \E i \in Matching(a.days_until_expiry) :
                  /\ \A j \in Matching(a.days_until_expiry) : i <= j
                  /\ a.reminder_label = REMINDER_SCHEDULE[i].label
                  /\ REMINDER_SCHEDULE[i].days = Schedule[i]
                  /\ ~\E m \in sent_reminders :
                        /\ m.user_id = ret.user_id
                        /\ m.item_type = a.item_type
                        /\ m.item_id = a.item_id
                        /\ m.reminder_days = Schedule[i]

C14_Witness ==
    /\ ret.op = "get_expiring_items"
    /\ \E a \in ret.items :
          a.item_type = "certificate" /\ Cardinality(Matching(a.days_until_expiry)) > 1
    /\ \E m \in sent_reminders :
          /\ m.user_id = ret.user_id
          /\ m.item_type = "event"
          /\ \E e \in events :
                /\ e.id = m.item_id
                /\ e.status = PENDING
                /\ Matching(e.due_date - today) # {}
                /\ \A a \in ret.items : ~(a.item_type = "event" /\ a.item_id = e.id)

\* C15: whatever the store holds, every item get_expiring_items returns
\* (to its caller or to send_reminders) has 0 < days_until <= 90, days_until
\* being the days from today to its date; a certificate that expired
\* yesterday or earlier is not among the items, today or on any later day.
C15_WindowOnly ==
    /\ \A u \in Users : \A a \in get_expiring_items(u) :
          /\ a.days_until_expiry = a.expiry_date - today
          /\ a.days_until_expiry > 0
          /\ a.days_until_expiry <= 90
    /\ ret.op \in {"get_expiring_items", "send_reminders"} =>
          /\ \A a \in ret.items :
                a.days_until_expiry > 0 /\ a.days_until_expiry <= 90
          /\ \A c \in certificates :
                (c.expiry_date # NULL /\ c.expiry_date < today) =>
                    \A a \in ret.items :
                        ~(a.item_type = "certificate" /\ a.item_id = c.id)

C15_Witness ==
    /\ ret.op = "get_expiring_items"
    /\ ret.items # {}
    /\ \E c \in get_latest_certificate(1, "gas_safety", ret.user_id) :
          c.expiry_date = today - 1
    /\ \E e \in events : e.status = PENDING /\ e.due_date < today
    /\ \E e \in events : e.status = PENDING /\ e.due_date > today + 90
    /\ sent_reminders = {}

----------------------------------------------------------------------------
(* Properties of overlapping send_reminders calls, under SpecOverlap *)

\* the key of a marker
MarkerKey(m) == <<m.user_id, m.item_type, m.item_id, m.reminder_days>>

\* the marker keys send_reminders writes for a set of items
ItemKeys(items, user_id) ==
    {<<user_id, i.item_type, i.item_id, label_days(i)>> : i \in items}

\* C21: when the marking loop of send_reminders writes a marker whose key
\* (owner, item_type, item_id, threshold) is stored already, no error is
\* raised: the call returns status ok with sent = the number of its items,
\* the markers stored before stay as they were, and afterwards the ledger
\* holds exactly one marker for every key, the keys of the call included.
C21_DuplicateMarkerBenign ==
    [][\A r \in Requests :
          (running[r].pc = "mark" /\ running'[r].pc = "idle") =>
              LET keys == ItemKeys(running[r].items, running[r].user_id)
                  before == {MarkerKey(m) : m \in sent_reminders}
              IN  /\ ret'.op = "send_reminders"
                  /\ ret'.status = "ok"
                  /\ ret'.sent = Cardinality(running[r].items)
                  /\ sent_reminders \subseteq sent_reminders'
                  /\ {MarkerKey(m) : m \in sent_reminders'} = before \cup keys
                  /\ Cardinality(sent_reminders') =
                        Cardinality(sent_reminders) + Cardinality(keys \ before)]_vars

\* a call has written markers that were all stored already
C21_Witness ==
    /\ ret.op = "send_reminders"
    /\ ret.status = "ok"
    /\ ret.sent > 0
    /\ Len(outbox) = 2
    /\ outbox[1] = outbox[2]
    /\ \A r \in Requests : running[r].pc = "idle"
    /\ {MarkerKey(m) : m \in sent_reminders} = ItemKeys(ret.items, ret.user_id)
    /\ Cardinality(sent_reminders) = ret.sent

\* C22 as claimed: two send_reminders calls of one owner that overlap never
\* both deliver an email containing the same (item_type, item_id, threshold).
C22_NoDoubleDelivery ==
    \A i, j \in 1..Len(outbox) :
        i # j => \A k \in outbox[i] : k \notin outbox[j]

----------------------------------------------------------------------------
(* Properties of the events generate_for_tenancy creates, under SpecStatus *)

\* C23: every event generate_for_tenancy has created is stored with a due
\* date that is not null, with status overdue when the due date is before
\* today and pending otherwise (an event due today is pending), never with
\* status completed and never with a completion date.
C23_CreatedStatus ==
    ret.op = "generate_for_tenancy" =>
        /\ ret.events \subseteq events
        /\ \A e \in ret.events :
              /\ e.due_date # NULL
              /\ e.due_date < today => e.status = OVERDUE
              /\ e.due_date >= today => e.status = PENDING
              /\ e.status # COMPLETED
              /\ e.completed_date = NULL

\* a generation has created an overdue event, an event due today and an
\* event due later
C23_Witness ==
    /\ ret.op = "generate_for_tenancy"
    /\ \E e \in ret.events : e.due_date < today /\ e.status = OVERDUE
    /\ \E e \in ret.events : e.due_date = today /\ e.status = PENDING
    /\ \E e \in ret.events : e.due_date > today /\ e.status = PENDING

----------------------------------------------------------------------------
(* Properties of stored events and certificates, under SpecCertificates *)

\* C24 as claimed: whenever a property has a latest certificate of a renewal
\* type with an expiry date, every stored renewal event of that type that is
\* not completed, of every tenancy of the property, is due on the expiry
\* date of a latest certificate.
C24_CertificateAuthoritative ==
    \A t \in tenancies : \A ty \in RenewalTypes :
        LET latest == {c \in LatestCerts(t.property_id, ty, t.user_id) :
                          c.expiry_date # NULL}
        IN  latest # {} =>
                \A e \in EventsOf(events, t.id) :
                    (e.event_type = RenewalEvent(ty) /\ e.status # COMPLETED) =>
                        e.due_date \in {c.expiry_date : c \in latest}

----------------------------------------------------------------------------
(* Properties of reminders across regenerations, under SpecResend *)

\* C25 as claimed: an obligation (tenancy, event_type) that a delivered
\* reminder has listed at a threshold is listed by no other delivered
\* reminder at the same threshold, also when generate_for_tenancy has
\* deleted the event and created it again under a new id in between.
C25_NoResendAfterRegeneration ==
    \A a, b \in delivered :
        (/\ a.tenancy_id = b.tenancy_id
         /\ a.event_type = b.event_type
         /\ a.reminder_days = b.reminder_days) => a.mail = b.mail

----------------------------------------------------------------------------
(* Properties of the thresholds written over time, under SpecResend *)

----------------------------------------------------------------------------
(* Properties of the status of stored events over time, under SpecTimeline *)

\* the status changes an event may make
StatusMoves ==
    {<<PENDING, PENDING>>, <<OVERDUE, OVERDUE>>, <<COMPLETED, COMPLETED>>,
     <<PENDING, OVERDUE>>, <<PENDING, COMPLETED>>, <<OVERDUE, COMPLETED>>}

\* C27: get_upcoming_events, get_overdue_events and mark_complete neither
\* add nor remove events, and the stored status of an event id only stays
\* or moves pending -> overdue, pending -> completed or overdue ->
\* completed; the two queries leave a completed event exactly as it was
\* stored and complete nothing.
C27_StatusMonotone ==
    [][ret'.op \in {"get_upcoming_events", "get_overdue_events", "mark_complete"} =>
         /\ {e.id : e \in events'} = {e.id : e \in events}
         /\ \A e \in events, f \in events' :
               e.id = f.id =>
                  /\ <<e.status, f.status>> \in StatusMoves
                  /\ ret'.op # "mark_complete" =>
                        /\ e.status = COMPLETED => f = e
                        /\ f.status = COMPLETED => e.status = COMPLETED]_vars

\* a query has run on a later day over a completed event whose due date has
\* passed and has moved another event to overdue
C27_Witness ==
    /\ ret.op \in {"get_upcoming_events", "get_overdue_events"}
    /\ calls.advance > 0
    /\ \E e \in events :
          e.status = COMPLETED /\ e.due_date < today /\ e.completed_date < today
    /\ \E e \in ret.events :
          e.status = OVERDUE /\ e.due_date >= 1000

\* C28: with a day that never goes back, every stored event with status
\* overdue has a due date, and that due date is before today.
C28_OverdueIsLate ==
    \A e \in events :
        e.status = OVERDUE => (e.due_date # NULL /\ e.due_date < today)

\* events created overdue and events a query moved to overdue are stored
\* next to a pending event that is not late
C28_Witness ==
    /\ ret.op \in {"get_upcoming_events", "get_overdue_events"}
    /\ \E e \in events : e.status = OVERDUE /\ e.due_date < 1000
    /\ \E e \in events : e.status = OVERDUE /\ e.due_date >= 1000
    /\ \E e \in events : e.status = PENDING /\ e.due_date >= today

\* C29: generate_for_tenancy on a tenancy with completed events leaves no
\* completed event of the tenancy in the store; for every event_type that
\* was completed the store holds an event of the tenancy again, pending or
\* overdue, which get_overdue_events returns when it is due before today
\* and get_upcoming_events returns when it is due within the days asked.
C29_CompletionDiscarded ==
    [][\A u \in Users, t \in tenancies :
          (ret'.op = "generate_for_tenancy" /\ ret'.user_id = u
             /\ ret'.tenancy_id = t.id) =>
            /\ \A f \in EventsOf(events', t.id) : f.status # COMPLETED
            /\ \A e \in EventsOf(events, t.id) :
                  e.status = COMPLETED =>
                     \E f \in EventsOf(events', t.id) :
                        /\ f.event_type = e.event_type
                        /\ f.id # e.id
                        /\ f.status \in {PENDING, OVERDUE}
                        /\ f.due_date < today' =>
                              f \in overdue_rows(u, NULL, NULL)'
                        /\ \A d \in LookaheadDays :
                              f.due_date <= today' + d =>
                                 f \in upcoming_rows(u, d, NULL, NULL)']_vars

\* an event was completed and its tenancy was generated again
C29_Witness ==
    /\ ret.op = "generate_for_tenancy"
    /\ calls.complete > 0
    /\ calls.generate = 2
    /\ ret.events # {}
    /\ \A e \in events : e.status # COMPLETED
    /\ \E e \in ret.events :
          e.event_type \in CompleteTypes /\ e.status = OVERDUE

----------------------------------------------------------------------------
(* Properties of get_expiring_items without an owner, under SpecSystemWide *)

========
